---- MODULE Spec2Model ----
(***************************************************************************)
(* HttpSensor (providers/http/sensors/http.py): an HTTP polling sensor     *)
(* with an optional deferral to a trigger.  The model follows one          *)
(* execution of one sensor instance: construction (__init__), execute,     *)
(* the pokes it makes, the deferral it registers and execute_complete.     *)
(*                                                                         *)
(* Strings that the code inspects character by character (the rendered     *)
(* error message and the allow-listed codes of str.startswith) are         *)
(* sequences of one-character strings.  Python's None, dicts and lists     *)
(* are tagged records, so that `x or {}` and `x is None` are computed as   *)
(* the code computes them.                                                 *)
(*                                                                         *)
(* Beside it, the remote-user authentication backend (fab tests,           *)
(* remote_user_api_auth_backend.py): the requests served through a         *)
(* function wrapped by requires_authentication, over a user store.         *)
(***************************************************************************)
EXTENDS Integers, Sequences, FiniteSets, TLC

VARIABLES
    ctor,       \* the keyword arguments HttpSensor(...) was built with
    sensor,     \* the attributes __init__ set on the instance
    state,      \* lifecycle: NotStarted, Polling, Deferred, Satisfied, Failed
    pokes,      \* number of calls of poke in this execution
    requests,   \* number of calls of hook.run in this execution
    lastHttp,   \* what hook.run did in the poke of this turn (NoCall before it)
    lastCheck,  \* what response_check did in the poke of this turn
    lastPoke,   \* how the poke of this turn ended: a returned value or a raised error
    deferrals,  \* the calls of self.defer, in order
    elapsed,    \* seconds the blocking loop has run
    raised,     \* the error that left execute, or NoError
    event,      \* the event execute_complete was called with, or NotResumed
    inst,       \* further sensor instances of the same process, by instance id
    users,          \* the user store behind security_manager.find_user
    remote_user,    \* request.remote_user of the latest request
    calls,          \* the calls the decorator made for the latest request, in order
    response,       \* what the decorated function returned for the latest request
    current_user,   \* the user flask_login has logged in, or None
    previous,       \* the response to the request before the latest
    served          \* number of requests served

\* the variables of the remote-user authentication backend
\* (tests/unit/fab/auth_manager/api_endpoints/remote_user_api_auth_backend.py)
backend == <<users, remote_user, calls, response, current_user, previous, served>>

vars == <<ctor, sensor, state, pokes, requests, lastHttp, lastCheck, lastPoke,
          deferrals, elapsed, raised, event, inst, backend>>

----------------------------------------------------------------------------
(* Bounds of the model *)

\* longest rendered error message, in characters
MaxMsgLen == 3

\* longest response_error_codes_allowlist
MaxAllow == 2

\* pokes of one execution that the blocking loop is followed for
MaxPokes == 3

\* requests through the authentication backend that are followed
MaxRequests == 3

----------------------------------------------------------------------------
(* Python values *)

None == [tag |-> "None"]

Dict(items) == [tag |-> "dict", items |-> items]

EmptyDict == Dict({})

List(items) == [tag |-> "list", items |-> items]

\* a function object, as given for response_check
Callable == [tag |-> "callable"]

Bool(b) == [tag |-> "bool", v |-> b]

\* PokeReturnValue(is_done): the value-carrying result a response_check may give
PokeReturnValue(is_done) == [tag |-> "PokeReturnValue", is_done |-> is_done]

\* bool(x)
Truthy(x) ==
    CASE x.tag = "None" -> FALSE
      [] x.tag = "dict" -> x.items # {}
      [] x.tag = "list" -> x.items # <<>>
      [] x.tag = "bool" -> x.v
      [] x.tag = "PokeReturnValue" -> x.is_done
      [] x.tag = "str" -> x.value # ""
      [] OTHER -> TRUE

\* x or d
Or(x, d) == IF Truthy(x) THEN x ELSE d

\* a str whose characters the code does not inspect
Text(value) == [tag |-> "str", value |-> value]

\* flask.Response(body, status)
Response(body, status) == [body |-> body, status |-> status]

\* no request has been answered
NoResponse == [tag |-> "NoResponse"]

\* the authentication backend before any request, with an empty user store
BackendNotStarted ==
    /\ users = {}
    /\ remote_user = None
    /\ calls = <<>>
    /\ response = NoResponse
    /\ current_user = None
    /\ previous = NoResponse
    /\ served = 0

SeqsUpTo(S, n) == UNION {[1..k -> S] : k \in 0..n}

\* the characters error messages and codes are written with
Chars == {"4", "0", "3"}

Code404 == <<"4", "0", "4">>

Code403 == <<"4", "0", "3">>

\* rendered messages of the errors a poke can meet
Messages == SeqsUpTo(Chars, MaxMsgLen)

\* AirflowException, and an error outside its hierarchy
\* (requests.exceptions.ConnectionError: connection refused)
ExcTypes == {"AirflowException", "ConnectionError"}

Exc(type, msg) == [type |-> type, msg |-> msg]

Errors == {Exc(t, m) : t \in ExcTypes, m \in Messages}

\* the slip `except Exception`: every error is caught
IsAirflowExceptionAny(exc) == TRUE

\* isinstance(exc, AirflowException)
IsAirflowException(exc) == exc.type = "AirflowException"

\* str(exc)
Str(exc) == exc.msg

\* prefix is a prefix of s
IsPrefix(prefix, s) ==
    /\ Len(prefix) <= Len(s)
    /\ \A i \in 1..Len(prefix) : prefix[i] = s[i]


\* the slip `s in prefixes`: membership in place of the prefix test
StartsWithMembership(s, prefixes) ==
    \E i \in 1..Len(prefixes) : prefixes[i] = s

\* s.startswith(prefixes), prefixes a tuple of strings
StartsWith(s, prefixes) ==
    \E i \in 1..Len(prefixes) : IsPrefix(prefixes[i], s)

SecondsPerDay == 86400

\* datetime.timedelta(seconds=n), n a whole number of seconds
timedelta(n) ==
    [days |-> n \div SecondsPerDay, seconds |-> n % SecondsPerDay, microseconds |-> 0]

\* timedelta.total_seconds()
total_seconds(td) == td.days * SecondsPerDay + td.seconds

----------------------------------------------------------------------------
(* Construction *)

\* the values response_error_codes_allowlist is given: None, or a list of codes
Codes == {Code404, Code403, <<"4">>}

AllowlistArgs == {None} \cup {List(l) : l \in SeqsUpTo(Codes, MaxAllow)}

\* the request and timing arguments sensors are built with
RequestArgs ==
    { [endpoint |-> "/a", http_conn_id |-> "http_default", method |-> "GET",
       request_params |-> None, headers |-> None, extra_options |-> None,
       request_kwargs |-> None, poke_interval |-> 1, timeout |-> 1],
      [endpoint |-> "/b", http_conn_id |-> "conn_b", method |-> "POST",
       request_params |-> Dict({<<"q", "1">>}), headers |-> Dict({<<"h", "1">>}),
       extra_options |-> Dict({<<"check_response", "False">>}),
       request_kwargs |-> Dict({<<"json", "1">>}),
       poke_interval |-> 60, timeout |-> 86460],
      [endpoint |-> "/c", http_conn_id |-> "conn_c", method |-> "HEAD",
       request_params |-> EmptyDict, headers |-> Dict({<<"h", "2">>}),
       extra_options |-> EmptyDict, request_kwargs |-> EmptyDict,
       poke_interval |-> 5, timeout |-> 0] }

CtorArgs ==
    { [request |-> r, response_error_codes_allowlist |-> al,
       response_check |-> rc, deferrable |-> d] :
        r \in RequestArgs, al \in AllowlistArgs,
        rc \in {None, Callable}, d \in BOOLEAN }

\* the slip `tuple(response_error_codes_allowlist or ("404",))`: [] gets the default too
InitAllowlistOrDefault(arg) == IF Truthy(arg) THEN arg.items ELSE <<Code404>>

\* ("404",) if response_error_codes_allowlist is None else tuple(...)
InitAllowlist(arg) == IF arg = None THEN <<Code404>> ELSE arg.items

\* HttpSensor.__init__
HttpSensorInit(a) ==
    [ endpoint |-> a.request.endpoint,
      http_conn_id |-> a.request.http_conn_id,
      method |-> a.request.method,
      response_error_codes_allowlist |-> InitAllowlist(a.response_error_codes_allowlist),
      request_params |-> Or(a.request.request_params, EmptyDict),
      headers |-> Or(a.request.headers, EmptyDict),
      extra_options |-> Or(a.request.extra_options, EmptyDict),
      response_check |-> a.response_check,
      deferrable |-> a.deferrable,
      request_kwargs |-> Or(a.request.request_kwargs, EmptyDict),
      poke_interval |-> a.request.poke_interval,
      timeout |-> a.request.timeout ]

----------------------------------------------------------------------------
(* poke *)

NoCall == [tag |-> "none"]

HttpOk(r) == [tag |-> "ok", response |-> r]

HttpError(e) == [tag |-> "error", exc |-> e]

\* the responses hook.run can return
Responses == {"r200", "r204"}

\* what one call of hook.run can do
HttpOutcomes == {HttpOk(r) : r \in Responses} \cup {HttpError(e) : e \in Errors}

Return(v) == [tag |-> "return", value |-> v]

Raise(e) == [tag |-> "raise", exc |-> e]

\* what one call of response_check can do
CheckOutcomes ==
    {Return(v) : v \in {Bool(TRUE), Bool(FALSE), PokeReturnValue(TRUE), PokeReturnValue(FALSE)}}
        \cup {Raise(e) : e \in Errors}

\* whether poke calls response_check after hook.run did `http`
CallsCheck(s, http) == http.tag = "ok" /\ Truthy(s.response_check)

\* the slip of an except clause without the allow-list test: every
\* AirflowException becomes False
ExceptAirflowExceptionSwallowed(s, exc) ==
    IF IsAirflowException(exc) THEN Return(Bool(FALSE)) ELSE Raise(exc)

\* the slip of raising a new AirflowException in place of the one caught
ExceptAirflowExceptionReplaced(s, exc) ==
    IF IsAirflowException(exc)
    THEN IF StartsWith(Str(exc), s.response_error_codes_allowlist)
         THEN Return(Bool(FALSE))
         ELSE Raise(Exc("AirflowException", <<>>))
    ELSE Raise(exc)

\* the slip of an except clause that re-raises every error it catches
ExceptAirflowExceptionReraised(s, exc) == Raise(exc)

\* the except clause of poke: the error is caught if it is an AirflowException
ExceptAirflowException(s, exc) ==
    IF IsAirflowException(exc)
    THEN IF StartsWith(Str(exc), s.response_error_codes_allowlist)
         THEN Return(Bool(FALSE))
         ELSE Raise(exc)
    ELSE Raise(exc)

\* the slip of a poke without its final `return True`: it falls off the end and
\* returns None
PokeNoFinalReturn(s, http, chk) ==
    IF http.tag = "error"
    THEN ExceptAirflowException(s, http.exc)
    ELSE IF Truthy(s.response_check)
         THEN IF chk.tag = "raise"
              THEN ExceptAirflowException(s, chk.exc)
              ELSE Return(chk.value)
         ELSE Return(None)

\* the slip of a poke that calls response_check without returning its result
PokeIgnoresCheck(s, http, chk) ==
    IF http.tag = "error"
    THEN ExceptAirflowException(s, http.exc)
    ELSE IF Truthy(s.response_check) /\ chk.tag = "raise"
         THEN ExceptAirflowException(s, chk.exc)
         ELSE Return(Bool(TRUE))

\* HttpSensor.poke, when hook.run does `http` and response_check (if called) does `chk`
Poke(s, http, chk) ==
    IF http.tag = "error"
    THEN ExceptAirflowException(s, http.exc)
    ELSE IF Truthy(s.response_check)
         THEN IF chk.tag = "raise"
              THEN ExceptAirflowException(s, chk.exc)
              ELSE Return(chk.value)
         ELSE Return(Bool(TRUE))

----------------------------------------------------------------------------
(* execute and execute_complete *)

\* the slip `self.response_check`: deferrable is not looked at
UseBlockingPathResponseCheckOnly(s) == Truthy(s.response_check)

\* the slip `not self.deferrable`: response_check is not looked at
UseBlockingPathDeferrableOnly(s) == ~s.deferrable

\* `not self.deferrable or self.response_check`
UseBlockingPath(s) == ~s.deferrable \/ Truthy(s.response_check)

\* the slip of data and headers exchanged in the trigger
HttpSensorTriggerSwapped(s) ==
    [ endpoint |-> s.endpoint,
      http_conn_id |-> s.http_conn_id,
      data |-> s.headers,
      headers |-> s.request_params,
      method |-> s.method,
      extra_options |-> s.extra_options,
      poke_interval |-> s.poke_interval ]

\* the slip of a trigger told to poll more slowly the more codes are allow-listed
HttpSensorTriggerBacksOff(s) ==
    [ endpoint |-> s.endpoint,
      http_conn_id |-> s.http_conn_id,
      data |-> s.request_params,
      headers |-> s.headers,
      method |-> s.method,
      extra_options |-> s.extra_options,
      poke_interval |-> s.poke_interval + Len(s.response_error_codes_allowlist) ]

\* HttpSensorTrigger(...) as execute builds it
HttpSensorTrigger(s) ==
    [ endpoint |-> s.endpoint,
      http_conn_id |-> s.http_conn_id,
      data |-> s.request_params,
      headers |-> s.headers,
      method |-> s.method,
      extra_options |-> s.extra_options,
      poke_interval |-> s.poke_interval ]

\* the slip of poke_interval given as the deferral's timeout
DeferCallPokeInterval(s) ==
    [ timeout |-> timedelta(s.poke_interval),
      trigger |-> HttpSensorTrigger(s),
      method_name |-> "execute_complete" ]

\* the arguments of self.defer(...) in execute
DeferCall(s) ==
    [ timeout |-> timedelta(s.timeout),
      trigger |-> HttpSensorTrigger(s),
      method_name |-> "execute_complete" ]

\* the slip of deferring whatever poke returned
ShouldDeferAlways(value) == TRUE

\* `if not self.poke(context)`
ShouldDefer(value) == ~Truthy(value)

NoError == [tag |-> "NoError"]

NotResumed == [tag |-> "NotResumed"]

\* the events the triggerer can resume the sensor with
Events ==
    {None, [tag |-> "event", status |-> "success"], [tag |-> "event", status |-> "error"],
     [tag |-> "event", status |-> "timeout"]}

AirflowSensorTimeout == Exc("AirflowSensorTimeout", <<>>)

\* no further instance has been built
NoInstances == <<>>

Init ==
    /\ ctor \in CtorArgs
    /\ sensor = HttpSensorInit(ctor)
    /\ state = "NotStarted"
    /\ pokes = 0
    /\ requests = 0
    /\ lastHttp = NoCall
    /\ lastCheck = NoCall
    /\ lastPoke = NoCall
    /\ deferrals = <<>>
    /\ elapsed = 0
    /\ raised = NoError
    /\ event = NotResumed
    /\ inst = NoInstances
    /\ BackendNotStarted

\* the task engine calls execute
Execute ==
    /\ state = "NotStarted"
    /\ state' = "Polling"
    /\ UNCHANGED <<ctor, sensor, pokes, requests, lastHttp, lastCheck, lastPoke,
                   deferrals, elapsed, raised, event, inst, backend>>

\* the slip of a poke that uses up the allow-list: the codes are tolerated once
PokeEffectUsesUpAllowlist(s) == [s EXCEPT !.response_error_codes_allowlist = <<>>]

\* what poke passes to the HTTP capability: HttpHook(method, http_conn_id, ...) and
\* hook.run(endpoint, data, headers, extra_options, **request_kwargs)
PokeRequest(s) ==
    [ method |-> s.method,
      http_conn_id |-> s.http_conn_id,
      endpoint |-> s.endpoint,
      data |-> s.request_params,
      headers |-> s.headers,
      extra_options |-> s.extra_options,
      request_kwargs |-> s.request_kwargs ]

\* the slip of a poke that fills in the headers it sends on the instance
PokeEffectStoresHeaders(s) == [s EXCEPT !.headers = Dict({<<"h", "2">>})]

\* the attributes of the instance after a call of poke: poke assigns to locals
\* only (hook, response, kwargs), never to self
PokeEffect(s) == s

\* one call of poke: the bookkeeping common to both paths
PokeCall(http, chk) ==
    /\ sensor' = PokeEffect(sensor)
    /\ pokes' = pokes + 1
    /\ requests' = requests + 1
    /\ lastHttp' = http
    /\ lastCheck' = chk
    /\ lastPoke' = Poke(sensor, http, chk)

\* the slip of a deferrable path that polls in-process (poke again while not
\* satisfied) in place of deferring
ExecuteDeferrableBusyLoop ==
    /\ state = "Polling"
    /\ ~UseBlockingPath(sensor)
    /\ pokes < MaxPokes
    /\ \E http \in HttpOutcomes :
       \E chk \in (IF CallsCheck(sensor, http) THEN CheckOutcomes ELSE {NoCall}) :
         /\ PokeCall(http, chk)
         /\ LET r == Poke(sensor, http, chk) IN
              IF r.tag = "raise"
              THEN /\ state' = "Failed"
                   /\ raised' = r.exc
              ELSE IF ShouldDefer(r.value)
                   THEN /\ state' = "Polling"
                        /\ UNCHANGED raised
                   ELSE /\ state' = "Satisfied"
                        /\ UNCHANGED raised
    /\ UNCHANGED <<ctor, deferrals, elapsed, event, inst, backend>>

\* execute, deferrable and without response_check: one poke, then defer if it was not satisfied
ExecuteDeferrable ==
    /\ state = "Polling"
    /\ ~UseBlockingPath(sensor)
    /\ \E http \in HttpOutcomes :
       \E chk \in (IF CallsCheck(sensor, http) THEN CheckOutcomes ELSE {NoCall}) :
         /\ PokeCall(http, chk)
         /\ LET r == Poke(sensor, http, chk) IN
              IF r.tag = "raise"
              THEN /\ state' = "Failed"
                   /\ raised' = r.exc
                   /\ UNCHANGED deferrals
              ELSE IF ShouldDefer(r.value)
                   THEN /\ deferrals' = Append(deferrals, DeferCall(sensor))
                        /\ state' = "Deferred"
                        /\ UNCHANGED raised
                   ELSE /\ state' = "Satisfied"
                        /\ UNCHANGED <<deferrals, raised>>
    /\ UNCHANGED <<ctor, elapsed, event, inst, backend>>

\* BaseSensorOperator.execute: one turn of the blocking loop, up to its sleep
\* (poke, then return, raise, time out or go on to sleep)
ExecuteBlocking ==
    /\ state = "Polling"
    /\ UseBlockingPath(sensor)
    /\ lastPoke = NoCall
    /\ pokes < MaxPokes
    /\ \E http \in HttpOutcomes :
       \E chk \in (IF CallsCheck(sensor, http) THEN CheckOutcomes ELSE {NoCall}) :
         /\ PokeCall(http, chk)
         /\ LET r == Poke(sensor, http, chk) IN
              IF r.tag = "raise"
              THEN /\ state' = "Failed"
                   /\ raised' = r.exc
              ELSE IF Truthy(r.value)
                   THEN /\ state' = "Satisfied"
                        /\ UNCHANGED raised
                   ELSE IF elapsed > sensor.timeout
                        THEN /\ state' = "Failed"
                             /\ raised' = AirflowSensorTimeout
                        ELSE /\ state' = "Polling"
                             /\ UNCHANGED raised
    /\ UNCHANGED <<ctor, deferrals, elapsed, event, inst, backend>>

\* BaseSensorOperator.execute: time.sleep(poke_interval) after a poke that was not
\* satisfied, and on to the next turn of the loop
Sleep ==
    /\ state = "Polling"
    /\ UseBlockingPath(sensor)
    /\ lastPoke # NoCall
    /\ elapsed' = elapsed + sensor.poke_interval
    /\ lastHttp' = NoCall
    /\ lastCheck' = NoCall
    /\ lastPoke' = NoCall
    /\ UNCHANGED <<ctor, sensor, state, pokes, requests, deferrals, raised, event, inst, backend>>

\* the slip of an execute_complete that pokes again and defers again when the
\* poke is not satisfied
ExecuteCompleteRepoke ==
    /\ state = "Deferred"
    /\ pokes < MaxPokes
    /\ \E e \in Events : event' = e
    /\ \E http \in HttpOutcomes :
         /\ PokeCall(http, NoCall)
         /\ LET r == Poke(sensor, http, NoCall) IN
              IF r.tag = "raise"
              THEN /\ state' = "Failed"
                   /\ raised' = r.exc
                   /\ UNCHANGED deferrals
              ELSE IF ShouldDefer(r.value)
                   THEN /\ deferrals' = Append(deferrals, DeferCall(sensor))
                        /\ state' = "Deferred"
                        /\ UNCHANGED raised
                   ELSE /\ state' = "Satisfied"
                        /\ UNCHANGED <<deferrals, raised>>
    /\ UNCHANGED <<ctor, elapsed, inst, backend>>

\* the triggerer resumes the sensor: execute_complete(context, event) logs and returns
ExecuteComplete ==
    /\ state = "Deferred"
    /\ \E e \in Events : event' = e
    /\ state' = "Satisfied"
    /\ UNCHANGED <<ctor, sensor, pokes, requests, lastHttp, lastCheck, lastPoke,
                   deferrals, elapsed, raised, inst, backend>>

Next ==
    \/ Execute
    \/ ExecuteDeferrable
    \/ ExecuteBlocking
    \/ Sleep
    \/ ExecuteComplete

Spec == Init /\ [][Next]_vars

----------------------------------------------------------------------------
(* poke called repeatedly on one sensor while the endpoint behaves the same *)

\* poke(context) is called on a sensor that has not poked yet
PokeDirect ==
    /\ lastPoke = NoCall
    /\ pokes < MaxPokes
    /\ \E http \in HttpOutcomes :
       \E chk \in (IF CallsCheck(sensor, http) THEN CheckOutcomes ELSE {NoCall}) :
         PokeCall(http, chk)
    /\ UNCHANGED <<ctor, state, deferrals, elapsed, raised, event, inst, backend>>

\* poke(context) is called again: hook.run and response_check do what they did
\* in the call before
PokeAgain ==
    /\ lastPoke # NoCall
    /\ pokes < MaxPokes
    /\ PokeCall(lastHttp, IF CallsCheck(sensor, lastHttp) THEN lastCheck ELSE NoCall)
    /\ UNCHANGED <<ctor, state, deferrals, elapsed, raised, event, inst, backend>>

NextPoke ==
    \/ PokeDirect
    \/ PokeAgain

SpecPoke == Init /\ [][NextPoke]_vars

----------------------------------------------------------------------------
(* executions that run to their end: the timeout falls within MaxPokes pokes *)

\* the poke at which the blocking loop times out if none is satisfied: the first
\* one made after more than `timeout` seconds of sleep
TimeoutPoke(request) == request.timeout \div request.poke_interval + 2

LiveInit == Init /\ TimeoutPoke(ctor.request) <= MaxPokes

\* the worker keeps running the execution: a step that can be taken is taken
SpecLive == LiveInit /\ [][Next]_vars /\ WF_vars(Next)

----------------------------------------------------------------------------
(* two sensor instances in one process, their executions interleaved *)

Instances == {1, 2}

\* the variables of the single sensor followed above
single == <<ctor, sensor, state, pokes, requests, lastHttp, lastCheck, lastPoke,
            deferrals, elapsed, raised, event>>

\* HttpSensor(endpoint="/a"): every other argument at its default
DefaultCtorArgs ==
    [ request |-> CHOOSE r \in RequestArgs : r.endpoint = "/a",
      response_error_codes_allowlist |-> None,
      response_check |-> None,
      deferrable |-> FALSE ]

\* the arguments instance i is built with: the two instances poll different endpoints
TwoCtorArgs(i) ==
    { [request |-> CHOOSE r \in RequestArgs : r.endpoint = (IF i = 1 THEN "/a" ELSE "/b"),
       response_error_codes_allowlist |-> al,
       response_check |-> rc,
       deferrable |-> d] :
        al \in {None, List(<<>>)}, rc \in {None, Callable}, d \in BOOLEAN }

\* what a request of either instance can do
TwoHttpOutcomes ==
    { HttpOk("r200"),
      HttpError(Exc("AirflowException", Code404)),
      HttpError(Exc("AirflowException", Code403)),
      HttpError(Exc("ConnectionError", Code404)) }

\* what the response_check of either instance can do
TwoCheckOutcomes ==
    {Return(Bool(TRUE)), Return(Bool(FALSE)), Raise(Exc("AirflowException", Code404))}

\* an instance as __init__ leaves it
NewInstance(a) ==
    [ ctor |-> a, sensor |-> HttpSensorInit(a), state |-> "NotStarted", pokes |-> 0,
      lastHttp |-> NoCall, lastCheck |-> NoCall, lastPoke |-> NoCall,
      deferrals |-> <<>>, elapsed |-> 0, raised |-> NoError, event |-> NotResumed ]

\* the instance r after a call of its poke
Poked(r, http, chk) ==
    [r EXCEPT !.sensor = PokeEffect(r.sensor),
              !.pokes = @ + 1,
              !.lastHttp = http,
              !.lastCheck = chk,
              !.lastPoke = Poke(r.sensor, http, chk)]

\* the instance r after the deferrable path of its execute
AfterExecuteDeferrable(r, http, chk) ==
    LET p == Poked(r, http, chk) IN
      IF p.lastPoke.tag = "raise"
      THEN [p EXCEPT !.state = "Failed", !.raised = p.lastPoke.exc]
      ELSE IF ShouldDefer(p.lastPoke.value)
           THEN [p EXCEPT !.state = "Deferred",
                          !.deferrals = Append(@, DeferCall(r.sensor))]
           ELSE [p EXCEPT !.state = "Satisfied"]

\* the instance r after one turn of the blocking loop
AfterExecuteBlocking(r, http, chk) ==
    LET p == Poked(r, http, chk) IN
      IF p.lastPoke.tag = "raise"
      THEN [p EXCEPT !.state = "Failed", !.raised = p.lastPoke.exc]
      ELSE IF Truthy(p.lastPoke.value)
           THEN [p EXCEPT !.state = "Satisfied"]
           ELSE IF r.elapsed > r.sensor.timeout
                THEN [p EXCEPT !.state = "Failed", !.raised = AirflowSensorTimeout]
                ELSE p

\* the slip of an allow-list kept in one place for all instances and used up by
\* a poke of any of them
PokeEffectOnOthersSharedAllowlist(o) ==
    [o EXCEPT !.sensor.response_error_codes_allowlist = <<>>]

\* another instance o after a call of poke on this one: poke touches its own
\* locals and reads its own attributes only
PokeEffectOnOthers(o) == o

\* instance i becomes `new`; `poked` tells whether the step called its poke
TwoStep(i, new, poked) ==
    /\ inst' = [j \in Instances |->
                  IF j = i THEN new
                  ELSE IF poked THEN PokeEffectOnOthers(inst[j]) ELSE inst[j]]
    /\ UNCHANGED <<single, backend>>

TwoInit ==
    /\ ctor = DefaultCtorArgs
    /\ sensor = HttpSensorInit(ctor)
    /\ state = "NotStarted"
    /\ pokes = 0
    /\ requests = 0
    /\ lastHttp = NoCall
    /\ lastCheck = NoCall
    /\ lastPoke = NoCall
    /\ deferrals = <<>>
    /\ elapsed = 0
    /\ raised = NoError
    /\ event = NotResumed
    /\ inst \in [Instances -> UNION {{NewInstance(a) : a \in TwoCtorArgs(i)} : i \in Instances}]
    /\ \A i \in Instances : inst[i].ctor \in TwoCtorArgs(i)
    /\ BackendNotStarted

TwoExecute(i) ==
    /\ inst[i].state = "NotStarted"
    /\ TwoStep(i, [inst[i] EXCEPT !.state = "Polling"], FALSE)

TwoExecuteDeferrable(i) ==
    /\ inst[i].state = "Polling"
    /\ ~UseBlockingPath(inst[i].sensor)
    /\ \E http \in TwoHttpOutcomes :
       \E chk \in (IF CallsCheck(inst[i].sensor, http) THEN TwoCheckOutcomes ELSE {NoCall}) :
         TwoStep(i, AfterExecuteDeferrable(inst[i], http, chk), TRUE)

TwoExecuteBlocking(i) ==
    /\ inst[i].state = "Polling"
    /\ UseBlockingPath(inst[i].sensor)
    /\ inst[i].lastPoke = NoCall
    /\ inst[i].pokes < MaxPokes
    /\ \E http \in TwoHttpOutcomes :
       \E chk \in (IF CallsCheck(inst[i].sensor, http) THEN TwoCheckOutcomes ELSE {NoCall}) :
         TwoStep(i, AfterExecuteBlocking(inst[i], http, chk), TRUE)

TwoSleep(i) ==
    /\ inst[i].state = "Polling"
    /\ UseBlockingPath(inst[i].sensor)
    /\ inst[i].lastPoke # NoCall
    /\ TwoStep(i, [inst[i] EXCEPT !.elapsed = @ + inst[i].sensor.poke_interval,
                                   !.lastHttp = NoCall,
                                   !.lastCheck = NoCall,
                                   !.lastPoke = NoCall], FALSE)

TwoExecuteComplete(i) ==
    /\ inst[i].state = "Deferred"
    /\ \E e \in Events :
         TwoStep(i, [inst[i] EXCEPT !.state = "Satisfied", !.event = e], FALSE)

NextTwo ==
    \E i \in Instances :
        \/ TwoExecute(i)
        \/ TwoExecuteDeferrable(i)
        \/ TwoExecuteBlocking(i)
        \/ TwoSleep(i)
        \/ TwoExecuteComplete(i)

SpecTwo == TwoInit /\ [][NextTwo]_vars

----------------------------------------------------------------------------
(* the remote-user authentication backend: requests through a function *)
(* wrapped by requires_authentication, over a user store that changes  *)

\* what a REMOTE_USER, an e-mail or a username may be
Identifiers == {"a", "b"}

\* request.remote_user: None without REMOTE_USER in the environment
RemoteUsers == {None, Text("")} \cup {Text(i) : i \in Identifiers}

\* a user of the store
User(email, username, is_active) ==
    [tag |-> "User", email |-> email, username |-> username, is_active |-> is_active]

UserRecords == {User(e, n, a) : e \in Identifiers, n \in Identifiers, a \in BOOLEAN}

\* the stores: e-mails are unique and usernames are unique, and the e-mail of one
\* user may be the username of another
Stores ==
    { S \in SUBSET UserRecords :
        \A u, v \in S : u # v => (u.email # v.email /\ u.username # v.username) }

\* what the wrapped function may return
FunctionResults == {Response("OK", 200), Response("Not Found", 404)}

\* security_manager.find_user(email=value) or find_user(username=value): the user
\* of the store with that e-mail or username, or None
FindUser(store, field, value) ==
    IF \E u \in store : u[field] = value
    THEN CHOOSE u \in store : u[field] = value
    ELSE None

\* the calls the decorator makes, as they are recorded
FindUserCall(field, value) == [fn |-> "find_user", field |-> field, value |-> value]

LoginUserCall(user, remember) == [fn |-> "login_user", user |-> user, remember |-> remember]

FunctionCall == [fn |-> "function"]

\* the slip of asking for the username first
LookupUserUsernameFirst(store, user_email_or_username) ==
    LET byUsername == FindUser(store, "username", user_email_or_username)
        byEmail == FindUser(store, "email", user_email_or_username)
        user == Or(byUsername, byEmail)
        queries == IF Truthy(byUsername)
                   THEN <<FindUserCall("username", user_email_or_username)>>
                   ELSE <<FindUserCall("username", user_email_or_username),
                          FindUserCall("email", user_email_or_username)>>
    IN  [ queries |-> queries,
          result |-> IF ~Truthy(user) THEN None
                     ELSE IF ~user.is_active THEN None
                     ELSE user ]

\* _lookup_user: find_user(email=...) or find_user(username=...), the second call
\* made only if the first gave nothing; None unless the user found is active.
\* `queries` are the find_user calls made, `result` is what is returned.
LookupUser(store, user_email_or_username) ==
    LET byEmail == FindUser(store, "email", user_email_or_username)
        byUsername == FindUser(store, "username", user_email_or_username)
        user == Or(byEmail, byUsername)
        queries == IF Truthy(byEmail)
                   THEN <<FindUserCall("email", user_email_or_username)>>
                   ELSE <<FindUserCall("email", user_email_or_username),
                          FindUserCall("username", user_email_or_username)>>
    IN  [ queries |-> queries,
          result |-> IF ~Truthy(user) THEN None
                     ELSE IF ~user.is_active THEN None
                     ELSE user ]

\* the slip of a decorator that lets a request through once a user is logged in
DecoratedTrustsSession(store, session, user_id, result) ==
    IF Truthy(session)
    THEN [ response |-> result, calls |-> <<FunctionCall>>, current_user |-> session ]
    ELSE IF ~Truthy(user_id)
    THEN [ response |-> Response("Forbidden", 403), calls |-> <<>>, current_user |-> session ]
    ELSE LET found == LookupUser(store, user_id.value) IN
           IF ~Truthy(found.result)
           THEN [ response |-> Response("Forbidden", 403),
                  calls |-> found.queries,
                  current_user |-> session ]
           ELSE [ response |-> result,
                  calls |-> found.queries \o <<LoginUserCall(found.result, FALSE), FunctionCall>>,
                  current_user |-> found.result ]

\* the slip of looking the user up before testing for a missing REMOTE_USER
DecoratedLooksUpFirst(store, session, user_id, result) ==
    LET found == LookupUser(store, IF user_id = None THEN "" ELSE user_id.value) IN
      IF ~Truthy(user_id) \/ ~Truthy(found.result)
      THEN [ response |-> Response("Forbidden", 403),
             calls |-> found.queries,
             current_user |-> session ]
      ELSE [ response |-> result,
             calls |-> found.queries \o <<LoginUserCall(found.result, FALSE), FunctionCall>>,
             current_user |-> found.result ]

\* the slip of calling the function before the user is logged in
DecoratedLogsInLate(store, session, user_id, result) ==
    IF ~Truthy(user_id)
    THEN [ response |-> Response("Forbidden", 403), calls |-> <<>>, current_user |-> session ]
    ELSE LET found == LookupUser(store, user_id.value) IN
           IF ~Truthy(found.result)
           THEN [ response |-> Response("Forbidden", 403),
                  calls |-> found.queries,
                  current_user |-> session ]
           ELSE [ response |-> result,
                  calls |-> found.queries \o <<FunctionCall, LoginUserCall(found.result, FALSE)>>,
                  current_user |-> found.result ]

\* decorated(*args, **kwargs) for a request with remote_user `user_id`, over the
\* store `store`, with `session` the user logged in so far and `result` what the
\* wrapped function returns if called: the response, the calls made in order and
\* the user logged in afterwards
Decorated(store, session, user_id, result) ==
    IF ~Truthy(user_id)
    THEN [ response |-> Response("Forbidden", 403), calls |-> <<>>, current_user |-> session ]
    ELSE LET found == LookupUser(store, user_id.value) IN
           IF ~Truthy(found.result)
           THEN [ response |-> Response("Forbidden", 403),
                  calls |-> found.queries,
                  current_user |-> session ]
           ELSE [ response |-> result,
                  calls |-> found.queries \o <<LoginUserCall(found.result, FALSE), FunctionCall>>,
                  current_user |-> found.result ]

\* no sensor runs beside the backend
SensorIdle ==
    /\ ctor = DefaultCtorArgs
    /\ sensor = HttpSensorInit(ctor)
    /\ state = "NotStarted"
    /\ pokes = 0
    /\ requests = 0
    /\ lastHttp = NoCall
    /\ lastCheck = NoCall
    /\ lastPoke = NoCall
    /\ deferrals = <<>>
    /\ elapsed = 0
    /\ raised = NoError
    /\ event = NotResumed
    /\ inst = NoInstances

AuthInit ==
    /\ SensorIdle
    /\ users \in Stores
    /\ remote_user = None
    /\ calls = <<>>
    /\ response = NoResponse
    /\ current_user = None
    /\ previous = NoResponse
    /\ served = 0

\* one request through the wrapped function
Request ==
    /\ served < MaxRequests
    /\ \E user_id \in RemoteUsers : \E result \in FunctionResults :
         LET d == Decorated(users, current_user, user_id, result) IN
           /\ remote_user' = user_id
           /\ calls' = d.calls
           /\ response' = d.response
           /\ current_user' = d.current_user
    /\ previous' = response
    /\ served' = served + 1
    /\ UNCHANGED <<single, inst, users>>

\* between two requests a user of the store is deactivated
DeactivateUser ==
    /\ \E u \in users :
         /\ u.is_active
         /\ users' = (users \ {u}) \cup {[u EXCEPT !.is_active = FALSE]}
    /\ UNCHANGED <<single, inst, remote_user, calls, response, current_user, previous, served>>

\* between two requests a user is removed from the store
DeleteUser ==
    /\ \E u \in users : users' = users \ {u}
    /\ UNCHANGED <<single, inst, remote_user, calls, response, current_user, previous, served>>

NextAuth == Request \/ DeactivateUser \/ DeleteUser

SpecAuth == AuthInit /\ [][NextAuth]_vars

----------------------------------------------------------------------------
(* Properties *)

\* some element of the allow-list L is a prefix of the message m
SomeElementIsPrefix(L, m) ==
    \E i \in DOMAIN L : Len(L[i]) <= Len(m) /\ SubSeq(m, 1, Len(L[i])) = L[i]

\* the message m begins with the status code `code`
BeginsWithCode(m, code) == Len(m) >= Len(code) /\ SubSeq(m, 1, Len(code)) = code

RequestFailed == lastHttp.tag = "error"

DeferrablePath == sensor.deferrable /\ sensor.response_check = None

\* C1 as stated: for every error raised by the HTTP request and every allow-list,
\* poke returns False iff some element of the allow-list is a prefix of the error's
\* rendered message, and otherwise the error propagates.
C1_AnyErrorPrefixIff ==
    RequestFailed =>
        IF SomeElementIsPrefix(sensor.response_error_codes_allowlist, lastHttp.exc.msg)
        THEN lastPoke = Return(Bool(FALSE))
        ELSE lastPoke = Raise(lastHttp.exc)

\* C1, amended: for every AirflowException raised by the HTTP request, poke returns
\* False iff some element of the allow-list is a prefix of its rendered message and
\* otherwise the error propagates; an error that is not an AirflowException
\* propagates whatever its message.
C1_AirflowExceptionPrefixIff ==
    RequestFailed =>
        IF /\ lastHttp.exc.type = "AirflowException"
           /\ SomeElementIsPrefix(sensor.response_error_codes_allowlist, lastHttp.exc.msg)
        THEN lastPoke = Return(Bool(FALSE))
        ELSE lastPoke = Raise(lastHttp.exc)

\* an AirflowException is swallowed because the second element of the allow-list,
\* shorter than the message, is a prefix of it, and the first is not
C1_Witness ==
    /\ RequestFailed
    /\ lastHttp.exc.type = "AirflowException"
    /\ Len(sensor.response_error_codes_allowlist) = 2
    /\ ~BeginsWithCode(lastHttp.exc.msg, sensor.response_error_codes_allowlist[1])
    /\ BeginsWithCode(lastHttp.exc.msg, sensor.response_error_codes_allowlist[2])
    /\ Len(sensor.response_error_codes_allowlist[2]) < Len(lastHttp.exc.msg)
    /\ lastPoke = Return(Bool(FALSE))

\* C2: a sensor built with response_error_codes_allowlist=None has the allow-list
\* ("404",): an HTTP 404 error makes poke return False and an HTTP 403 error makes
\* it raise; built with [] the allow-list is empty and every HTTP error, 404
\* included, makes poke raise.
C2_AllowlistDefaults ==
    /\ ctor.response_error_codes_allowlist = None =>
          /\ sensor.response_error_codes_allowlist = <<Code404>>
          /\ (RequestFailed /\ lastHttp.exc.type = "AirflowException") =>
                /\ BeginsWithCode(lastHttp.exc.msg, Code404) => lastPoke = Return(Bool(FALSE))
                /\ BeginsWithCode(lastHttp.exc.msg, Code403) => lastPoke = Raise(lastHttp.exc)
    /\ ctor.response_error_codes_allowlist = List(<<>>) =>
          /\ sensor.response_error_codes_allowlist = <<>>
          /\ RequestFailed => lastPoke = Raise(lastHttp.exc)

\* the explicit opt-out: built with [], an HTTP 404 error has made poke raise
C2_Witness ==
    /\ ctor.response_error_codes_allowlist = List(<<>>)
    /\ lastHttp = HttpError(Exc("AirflowException", Code404))
    /\ lastPoke = Raise(Exc("AirflowException", Code404))

\* C3: with a response_check set, execute never registers a deferral, whatever
\* deferrable is and whatever the pokes return.
C3_NoDeferralWithResponseCheck ==
    sensor.response_check # None => (deferrals = <<>> /\ state # "Deferred")

\* a deferrable sensor with a response_check whose poke was not satisfied
C3_Witness ==
    /\ sensor.response_check # None
    /\ sensor.deferrable
    /\ lastPoke.tag = "return"
    /\ lastPoke.value \in {Bool(FALSE), PokeReturnValue(FALSE)}
    /\ state = "Polling"

\* C4: deferrable, without response_check, and the poke of execute not satisfied:
\* exactly one deferral is registered, and its trigger carries the sensor's endpoint,
\* connection id, method, headers, request_params, extra_options and poke_interval.
C4_DefersOnceWithRequest ==
    /\ Len(deferrals) <= 1
    /\ (DeferrablePath /\ lastPoke = Return(Bool(FALSE))) =>
          /\ Len(deferrals) = 1
          /\ deferrals[1].trigger.endpoint = sensor.endpoint
          /\ deferrals[1].trigger.http_conn_id = sensor.http_conn_id
          /\ deferrals[1].trigger.method = sensor.method
          /\ deferrals[1].trigger.headers = sensor.headers
          /\ deferrals[1].trigger.data = sensor.request_params
          /\ deferrals[1].trigger.extra_options = sensor.extra_options
          /\ deferrals[1].trigger.poke_interval = sensor.poke_interval
          /\ deferrals[1].trigger.endpoint = ctor.request.endpoint
          /\ deferrals[1].trigger.http_conn_id = ctor.request.http_conn_id
          /\ deferrals[1].trigger.method = ctor.request.method
          /\ deferrals[1].trigger.poke_interval = ctor.request.poke_interval
          /\ ctor.request.headers # None =>
                deferrals[1].trigger.headers = ctor.request.headers
          /\ ctor.request.request_params # None =>
                deferrals[1].trigger.data = ctor.request.request_params
          /\ ctor.request.extra_options # None =>
                deferrals[1].trigger.extra_options = ctor.request.extra_options

\* a sensor with request_params and headers given has deferred
C4_Witness ==
    /\ state = "Deferred"
    /\ lastPoke = Return(Bool(FALSE))
    /\ Len(deferrals) = 1
    /\ sensor.request_params # EmptyDict
    /\ sensor.headers # EmptyDict
    /\ sensor.request_params # sensor.headers

\* C5: every deferral registered by execute has the configured timeout as its
\* maximum wait and names execute_complete as the method to resume with.
C5_DeferralTimeoutAndCallback ==
    \A i \in 1..Len(deferrals) :
        /\ total_seconds(deferrals[i].timeout) = ctor.request.timeout
        /\ deferrals[i].timeout.seconds < SecondsPerDay
        /\ deferrals[i].method_name = "execute_complete"

\* a deferral whose timeout is longer than a day
C5_Witness ==
    /\ state = "Deferred"
    /\ Len(deferrals) = 1
    /\ deferrals[1].timeout.days > 0
    /\ ctor.request.timeout # ctor.request.poke_interval

\* C6: deferrable and without response_check, a satisfied poke makes execute return
\* at once: no deferral is registered, the sensor is Satisfied and was never Deferred.
C6_SatisfiedPokeReturns ==
    (DeferrablePath /\ lastPoke.tag = "return" /\ Truthy(lastPoke.value)) =>
        /\ state = "Satisfied"
        /\ deferrals = <<>>
        /\ event = NotResumed
        /\ pokes = 1

\* the deferrable path ended Satisfied by its one poke
C6_Witness ==
    /\ DeferrablePath
    /\ lastHttp.tag = "ok"
    /\ lastPoke = Return(Bool(TRUE))
    /\ state = "Satisfied"

\* the HTTP request of this turn failed with an error that is not allow-listed
FatalRequestError ==
    /\ RequestFailed
    /\ ~(/\ lastHttp.exc.type = "AirflowException"
          /\ SomeElementIsPrefix(sensor.response_error_codes_allowlist, lastHttp.exc.msg))

\* C7: once a poke raises an error that is not allow-listed the sensor is Failed
\* with that error, no deferral has been registered, and the execution takes no
\* further step (no poke, no deferral).
C7_FatalErrorEndsExecution ==
    (lastPoke.tag = "raise" \/ FatalRequestError) =>
        /\ lastPoke.tag = "raise"
        /\ state = "Failed"
        /\ raised = lastPoke.exc
        /\ deferrals = <<>>
        /\ ~ENABLED Next

\* the one poke of the deferrable path raised an AirflowException that is not allow-listed
C7_Witness ==
    /\ DeferrablePath
    /\ FatalRequestError
    /\ lastHttp.exc.type = "AirflowException"
    /\ sensor.response_error_codes_allowlist # <<>>
    /\ state = "Failed"
    /\ pokes = 1

\* C8: every error raised by the response_check callable propagates out of poke,
\* whatever its type and message: none is turned into a NotSatisfied result.
C8_CheckErrorsPropagate ==
    lastCheck.tag = "raise" => lastPoke = Raise(lastCheck.exc)

ErrorEvents == {e \in Events : e # None /\ e.status \in {"error", "timeout"}}

\* C9: resumed by execute_complete with an event that carries an error or a
\* timeout, the sensor ends Failed, not Satisfied.
C9_ErrorEventFails ==
    event \in ErrorEvents => state = "Failed"

\* C10: execute_complete, for every event and for none, issues no HTTP request,
\* calls no poke and registers no deferral; after it the sensor is in a terminal
\* state, takes no further step and is never Deferred again.
C10_ResumptionIsFinal ==
    /\ [][state = "Deferred" =>
            /\ requests' = requests
            /\ pokes' = pokes
            /\ deferrals' = deferrals
            /\ state' \in {"Satisfied", "Failed"}]_vars
    /\ [](event # NotResumed =>
            /\ state \in {"Satisfied", "Failed"}
            /\ Len(deferrals) = 1
            /\ ~ENABLED Next)

\* the sensor has been resumed with no event
C10_Witness ==
    /\ event = None
    /\ state = "Satisfied"
    /\ pokes = 1
    /\ Len(deferrals) = 1

\* the transitions of the lifecycle
Transitions ==
    { <<"NotStarted", "Polling">>, <<"Polling", "Polling">>, <<"Polling", "Satisfied">>,
      <<"Polling", "Deferred">>, <<"Polling", "Failed">>,
      <<"Deferred", "Satisfied">>, <<"Deferred", "Failed">> }

\* C11: every step of an execution is one of the transitions of the state machine;
\* Deferred is entered only from Polling, by the step of a poke that returned
\* NotSatisfied, and only by a deferrable sensor without response_check; Satisfied
\* and Failed are left by no step.
C11_Lifecycle ==
    /\ [][/\ <<state, state'>> \in Transitions
          /\ state' = "Deferred" =>
                /\ state = "Polling"
                /\ pokes' = pokes + 1
                /\ lastPoke'.tag = "return"
                /\ lastPoke'.value \in {Bool(FALSE), PokeReturnValue(FALSE)}
                /\ ctor.deferrable
                /\ ctor.response_check = None]_vars
    /\ [](state \in {"NotStarted", "Polling", "Deferred", "Satisfied", "Failed"})
    /\ [](~ctor.deferrable => state # "Deferred")
    /\ [](state \in {"Satisfied", "Failed"} => ~ENABLED Next)

\* a sensor has gone NotStarted, Polling, Deferred, Satisfied
C11_Witness ==
    /\ state = "Satisfied"
    /\ event # NotResumed
    /\ ctor.deferrable
    /\ ctor.response_check = None
    /\ lastPoke = Return(Bool(FALSE))

\* C12: in the deferrable path execute calls poke exactly once, and while the
\* sensor is Deferred it makes no poke, no HTTP request and no sleep: the only step
\* it takes is the resumption by execute_complete.
C12_OneShotSuspension ==
    /\ [](DeferrablePath =>
            /\ pokes <= 1
            /\ requests <= 1
            /\ elapsed = 0
            /\ state \in {"Deferred", "Satisfied", "Failed"} => pokes = 1)
    /\ [](state = "Deferred" =>
            /\ event = NotResumed
            /\ Len(deferrals) = 1
            /\ ~ENABLED ExecuteDeferrable
            /\ ~ENABLED ExecuteBlocking
            /\ ~ENABLED Sleep)
    /\ [][state = "Deferred" =>
            /\ pokes' = pokes
            /\ requests' = requests
            /\ elapsed' = elapsed
            /\ lastPoke' = lastPoke
            /\ event' # NotResumed]_vars

\* the sensor is suspended after its one poke
C12_Witness ==
    /\ state = "Deferred"
    /\ pokes = 1
    /\ requests = 1
    /\ elapsed = 0
    /\ event = NotResumed

\* C13: without a response_check, poke returns True for every request that
\* completes without raising, whatever the response, and returns True in no other case.
C13_NoCheckSatisfiedIffResponse ==
    (ctor.response_check = None /\ lastPoke # NoCall) =>
        /\ lastCheck = NoCall
        /\ lastHttp.tag = "ok" <=> lastPoke = Return(Bool(TRUE))
        /\ lastHttp.tag = "ok" <=> (lastPoke.tag = "return" /\ Truthy(lastPoke.value))

\* a request that returned the response r204 satisfied the sensor
C13_Witness ==
    /\ ctor.response_check = None
    /\ lastHttp = HttpOk("r204")
    /\ lastPoke = Return(Bool(TRUE))
    /\ state = "Satisfied"

\* C14: with a response_check and a request that completes without raising, poke
\* returns exactly what the callable returned (True, False or a PokeReturnValue);
\* it is never satisfied when the callable was not.
C14_CheckResultIsOutcome ==
    (ctor.response_check # None /\ lastHttp.tag = "ok") =>
        /\ lastCheck # NoCall
        /\ lastCheck.tag = "return" => lastPoke = lastCheck
        /\ (lastPoke.tag = "return" /\ Truthy(lastPoke.value)) =>
              (lastCheck.tag = "return" /\ Truthy(lastCheck.value))

\* the callable returned False and so did poke
C14_Witness ==
    /\ ctor.response_check # None
    /\ lastHttp.tag = "ok"
    /\ lastCheck = Return(Bool(FALSE))
    /\ lastPoke = Return(Bool(FALSE))
    /\ state = "Polling"

C16_FatalErrorsUnchanged ==
    RequestFailed =>
        /\ lastPoke.tag = "return" =>
              /\ lastPoke = Return(Bool(FALSE))
              /\ lastHttp.exc.type = "AirflowException"
              /\ SomeElementIsPrefix(sensor.response_error_codes_allowlist, lastHttp.exc.msg)
        /\ FatalRequestError =>
              /\ lastPoke = Raise(lastHttp.exc)
              /\ DeferrablePath => (state = "Failed" /\ raised = lastHttp.exc)

\* a 403 left the deferrable execute of a sensor with the default allow-list
C16_Witness ==
    /\ DeferrablePath
    /\ sensor.response_error_codes_allowlist = <<Code404>>
    /\ lastHttp = HttpError(Exc("AirflowException", Code403))
    /\ raised = Exc("AirflowException", Code403)
    /\ deferrals = <<>>

\* the request parameters a trigger spec t carries; a parameter it has no field
\* for is not handed off, and a poll made from t passes none
CarriedRequest(t) ==
    [ method |-> t.method,
      http_conn_id |-> t.http_conn_id,
      endpoint |-> t.endpoint,
      data |-> t.data,
      headers |-> t.headers,
      extra_options |-> t.extra_options,
      request_kwargs |-> IF "request_kwargs" \in DOMAIN t THEN t.request_kwargs ELSE EmptyDict ]

\* C17: the trigger spec registered by execute carries every parameter that poke
\* passes to the HTTP capability (method, connection id, endpoint, request_params,
\* headers, extra_options and request_kwargs), so that a deferred poll issues the
\* request of an in-process poke.
C17_TriggerCarriesFullRequest ==
    \A i \in 1..Len(deferrals) :
        CarriedRequest(deferrals[i].trigger) = PokeRequest(sensor)

\* C18: a connection error of the transport (no HTTP status error) makes poke raise
\* and fails the sensor, for every allow-list and every message, also a message
\* that begins with an allow-listed code.
C18_ConnectionErrorFails ==
    (RequestFailed /\ lastHttp.exc.type = "ConnectionError") =>
        /\ lastPoke = Raise(lastHttp.exc)
        /\ raised = lastHttp.exc
        /\ state = "Failed"
        /\ deferrals = <<>>

\* a connection error whose message begins with an allow-listed code failed the sensor
C18_Witness ==
    /\ RequestFailed
    /\ lastHttp.exc.type = "ConnectionError"
    /\ SomeElementIsPrefix(sensor.response_error_codes_allowlist, lastHttp.exc.msg)
    /\ lastHttp.exc.msg # <<>>
    /\ state = "Failed"

BlockingMode == ~ctor.deferrable \/ ctor.response_check # None

Unsatisfied == lastPoke.tag = "return" /\ ~Truthy(lastPoke.value)

\* C19: in blocking mode a poke that is not satisfied before the timeout is
\* followed by a sleep of poke_interval and then by another poke; one that is not
\* satisfied after the timeout fails the sensor; and every blocking execution ends
\* Satisfied or Failed.
C19_BlockingTerminates ==
    /\ [](BlockingMode /\ lastPoke # NoCall =>
            /\ elapsed = (pokes - 1) * ctor.request.poke_interval
            /\ Unsatisfied =>
                  \/ state = "Polling" /\ elapsed <= ctor.request.timeout /\ ENABLED Sleep
                  \/ /\ state = "Failed"
                     /\ raised = AirflowSensorTimeout
                     /\ elapsed > ctor.request.timeout)
    /\ [](BlockingMode /\ state = "Polling" /\ lastPoke = NoCall => ENABLED ExecuteBlocking)
    /\ [][BlockingMode /\ state = "Polling" =>
            IF lastPoke = NoCall
            THEN pokes' = pokes + 1 /\ elapsed' = elapsed /\ lastPoke' # NoCall
            ELSE /\ pokes' = pokes
                 /\ elapsed' = elapsed + ctor.request.poke_interval
                 /\ lastPoke' = NoCall
                 /\ state' = "Polling"]_vars
    /\ BlockingMode ~> state \in {"Satisfied", "Failed"}

\* a blocking execution whose three pokes were not satisfied has timed out
C19_Witness ==
    /\ BlockingMode
    /\ pokes = 3
    /\ Unsatisfied
    /\ state = "Failed"
    /\ raised = AirflowSensorTimeout

\* the instances i and j are configured alike in what poke reads, and their latest
\* requests and callables did the same
SameConfigAndResponses(i, j) ==
    /\ inst[i].ctor.response_error_codes_allowlist = inst[j].ctor.response_error_codes_allowlist
    /\ inst[i].ctor.response_check = inst[j].ctor.response_check
    /\ inst[i].lastPoke # NoCall
    /\ inst[j].lastPoke # NoCall
    /\ inst[i].lastHttp = inst[j].lastHttp
    /\ inst[i].lastCheck = inst[j].lastCheck

\* C20: with the executions of two instances interleaved in any order, a step of
\* one instance changes nothing of the other, the outcome of a poke depends on the
\* instance's own configuration and responses only, and each registered trigger
\* spec holds the instance's own request.
C20_InstancesIndependent ==
    /\ [][\E i \in Instances : \A j \in Instances \ {i} : inst'[j] = inst[j]]_vars
    /\ [](\A i \in Instances :
            /\ inst[i].sensor = HttpSensorInit(inst[i].ctor)
            /\ \A j \in Instances :
                  SameConfigAndResponses(i, j) => inst[i].lastPoke = inst[j].lastPoke
            /\ \A k \in 1..Len(inst[i].deferrals) :
                  /\ inst[i].deferrals[k].trigger.endpoint = inst[i].ctor.request.endpoint
                  /\ inst[i].deferrals[k].trigger.http_conn_id = inst[i].ctor.request.http_conn_id
                  /\ inst[i].deferrals[k].trigger.method = inst[i].ctor.request.method
                  /\ inst[i].deferrals[k].trigger.poke_interval = inst[i].ctor.request.poke_interval
                  /\ total_seconds(inst[i].deferrals[k].timeout) = inst[i].ctor.request.timeout)

\* both instances have poked and met the same 404 failure: the one with the
\* default allow-list has deferred, the one with the empty allow-list has failed
C20_Witness ==
    /\ inst[1].state = "Deferred"
    /\ inst[2].state = "Failed"
    /\ inst[1].lastHttp = HttpError(Exc("AirflowException", Code404))
    /\ inst[2].lastHttp = HttpError(Exc("AirflowException", Code404))
    /\ inst[1].ctor.response_error_codes_allowlist = None
    /\ inst[2].ctor.response_error_codes_allowlist = List(<<>>)

\* the attributes of the poll request and of the sensor's configuration
RequestAttributes ==
    { "endpoint", "method", "http_conn_id", "request_params", "headers", "extra_options",
      "response_error_codes_allowlist", "response_check", "deferrable" }

\* C21: poke, execute and execute_complete, in any sequence and with any outcome,
\* leave endpoint, method, connection id, request_params, headers, extra_options,
\* the allow-list, response_check and deferrable as construction set them.
C21_RequestImmutable ==
    /\ [][\A f \in RequestAttributes : sensor'[f] = sensor[f]]_vars
    /\ [](/\ sensor.endpoint = ctor.request.endpoint
          /\ sensor.method = ctor.request.method
          /\ sensor.http_conn_id = ctor.request.http_conn_id
          /\ sensor.request_params = Or(ctor.request.request_params, EmptyDict)
          /\ sensor.headers = Or(ctor.request.headers, EmptyDict)
          /\ sensor.extra_options = Or(ctor.request.extra_options, EmptyDict)
          /\ sensor.response_check = ctor.response_check
          /\ sensor.deferrable = ctor.deferrable
          /\ ctor.response_error_codes_allowlist # None =>
                sensor.response_error_codes_allowlist = ctor.response_error_codes_allowlist.items)

\* poke, execute (with a deferral) and execute_complete have all run on a sensor
\* built with headers and an allow-list of its own
C21_Witness ==
    /\ state = "Satisfied"
    /\ event # NotResumed
    /\ Len(deferrals) = 1
    /\ pokes = 1
    /\ ctor.request.headers # None
    /\ ctor.response_error_codes_allowlist = List(<<Code403, Code404>>)

\* the poke made by the deferrable path of execute has hit an error whose message
\* starts with an allow-listed code
AllowlistedFailureInDeferrablePath ==
    /\ DeferrablePath
    /\ RequestFailed
    /\ SomeElementIsPrefix(sensor.response_error_codes_allowlist, lastHttp.exc.msg)

\* C23 as stated: in the deferrable path, a poke that hits an error (of any kind)
\* whose message starts with an allow-listed code leads to a registered deferral
\* and to Deferred, never to Failed.
C23_AnyAllowlistedFailureDefers ==
    AllowlistedFailureInDeferrablePath =>
        /\ state # "Failed"
        /\ Len(deferrals) = 1
        /\ raised = NoError

\* C23, amended: in the deferrable path, a poke that hits an AirflowException whose
\* message starts with an allow-listed code leads to a registered deferral and to
\* Deferred (and from there to Satisfied by execute_complete only), never to Failed;
\* an error of another type with such a message fails the sensor.
C23_AllowlistedAirflowExceptionDefers ==
    AllowlistedFailureInDeferrablePath =>
        IF lastHttp.exc.type = "AirflowException"
        THEN /\ lastPoke = Return(Bool(FALSE))
             /\ Len(deferrals) = 1
             /\ raised = NoError
             /\ \/ state = "Deferred" /\ event = NotResumed
                \/ state = "Satisfied" /\ event # NotResumed
        ELSE /\ state = "Failed"
             /\ raised = lastHttp.exc
             /\ deferrals = <<>>

\* a 404 failure under the default allow-list has deferred the sensor
C23_Witness ==
    /\ AllowlistedFailureInDeferrablePath
    /\ ctor.response_error_codes_allowlist = None
    /\ lastHttp = HttpError(Exc("AirflowException", Code404))
    /\ state = "Deferred"
    /\ Len(deferrals) = 1

\* C24: a registered deferral (trigger spec and timeout) is the same whatever
\* allow-list the sensor was built with, all else equal; and the deferrable path
\* pokes once, so the allow-list acts through that poke only.
C24_DeferralIndependentOfAllowlist ==
    /\ \A k \in 1..Len(deferrals) : \A al \in AllowlistArgs :
          deferrals[k] = DeferCall(HttpSensorInit([ctor EXCEPT !.response_error_codes_allowlist = al]))
    /\ DeferrablePath => pokes <= 1

\* a sensor with the allow-list ["4", "403"] has deferred on a 404 failure, on
\* which the same sensor with the default allow-list defers as well
C24_Witness ==
    /\ state = "Deferred"
    /\ Len(deferrals) = 1
    /\ ctor.response_error_codes_allowlist = List(<< <<"4">>, Code403 >>)
    /\ lastHttp = HttpError(Exc("AirflowException", Code404))

\* the latest step served a request
RequestServed == served' = served + 1

Forbidden == Response("Forbidden", 403)

\* the calls of `fn` among the calls cs, by position
CallsOf(cs, fn) == {k \in DOMAIN cs : cs[k].fn = fn}

\* the request carries a non-empty REMOTE_USER
HasRemoteUser(id) == id # None /\ id # Text("")

\* the users of the store S that the identifier matches: those with it as e-mail
\* and, if there are none, those with it as username
Matching(S, id) ==
    IF \E u \in S : u.email = id.value
    THEN {u \in S : u.email = id.value}
    ELSE {u \in S : u.username = id.value}

\* REMOTE_USER is missing or empty, or no user matches it, or the matching user
\* is inactive
Denied(S, id) == ~HasRemoteUser(id) \/ \A u \in Matching(S, id) : ~u.is_active

\* C22: the backend allows everything: for every request the wrapped function is
\* invoked and its result is the response.
C22_EverythingAllowed ==
    served > 0 => (CallsOf(calls, "function") # {} /\ response \in FunctionResults)

C27_EmailFirst ==
    [][(RequestServed /\ HasRemoteUser(remote_user')) =>
          LET id == remote_user'.value IN
            /\ calls'[1] = FindUserCall("email", id)
            /\ (\E k \in DOMAIN calls' : calls'[k] = FindUserCall("username", id))
                  <=> ~(\E u \in users : u.email = id)
            /\ \A u \in users : u.email = id =>
                  IF u.is_active
                  THEN /\ calls' = <<FindUserCall("email", id), LoginUserCall(u, FALSE), FunctionCall>>
                       /\ current_user' = u
                  ELSE /\ calls' = <<FindUserCall("email", id)>>
                       /\ response' = Forbidden]_vars

\* the identifier is the e-mail of an inactive user and the username of another,
\* active user: the request was refused after the e-mail lookup alone
C27_Witness ==
    /\ served > 0
    /\ remote_user = Text("a")
    /\ User("a", "b", FALSE) \in users
    /\ User("b", "a", TRUE) \in users
    /\ calls = <<FindUserCall("email", "a")>>
    /\ response = Forbidden

====
